---- MODULE Spec2Model ----
(***************************************************************************)
(* Model of refactor_solid.py: the Order entity, the payment and           *)
(* notification strategies, CheckoutService.run_checkout executed one      *)
(* statement at a time, and the module-level script (Skenario 1 and 2).    *)
(*                                                                         *)
(* Two drivers share the same run_checkout steps.  With mpc = "harness"    *)
(* the objects exist from the start and run_checkout is called on any      *)
(* service and any order, the injected strategy being one of the two       *)
(* concrete processors or a double whose result is drawn from              *)
(* ProcessOutcomes.  Otherwise mpc is the line of the script that runs     *)
(* next.                                                                   *)
(*                                                                         *)
(* Python values are written as strings ("True", "False", "1", "None").    *)
(* Object references are indices into the sequences orders, processors,    *)
(* notifiers and services; env binds the script's variable names to them.  *)
(* calls keeps one record per run_checkout call of what was invoked in     *)
(* it; the program reads none of it.                                       *)
(***************************************************************************)
EXTENDS Integers, Sequences, FiniteSets, TLC

VARIABLES
    orders,           \* Order objects: [customer_name, total_price, status]
    processors,       \* payment strategy objects (their class)
    notifiers,        \* notifier objects (their class)
    services,         \* CheckoutService objects: [payment_processor, notifier]
    env,              \* module-level names of the script -> object reference
    log,              \* lines written so far, in emission order
    mpc,              \* script line to run next, "done", or "harness"
    pc,               \* run_checkout line to run next, or "idle"
    self_ref,         \* run_checkout's self
    order_ref,        \* run_checkout's order argument
    payment_success,  \* run_checkout's local variable
    exc,              \* exception that left the last call: "none", "process", "send"
    calls             \* one record per call, in call order; the last is the current one

vars == <<orders, processors, notifiers, services, env, log, mpc, pc,
          self_ref, order_ref, payment_success, exc, calls>>

\* Number of Order objects the harness creates.
MaxOrders == 2

\* Number of run_checkout calls the harness makes.
MaxCalls == 2

\* Constructor arguments the harness draws orders from.
OrderInputs == {<<"Andi", 500000>>, <<"Budi", 100000>>}

----
\* An Order whose status is not "open" when created.
OrderPending(customer_name, total_price) ==
    [customer_name |-> customer_name, total_price |-> total_price, status |-> "pending"]

\* Order dataclass: status defaults to "open".
Order(customer_name, total_price) ==
    [customer_name |-> customer_name, total_price |-> total_price, status |-> "open"]

\* CheckoutService.__init__ stores the two injected references.
CheckoutService(payment_processor, notifier) ==
    [payment_processor |-> payment_processor, notifier |-> notifier]

\* Python truth value of what process() returned.
Truthy(v) == v \notin {"False", "None", "0", ""}

\* What process() of each strategy class can do: return a value, or raise.
\* The two concrete classes return True; a double of the interface returns
\* any value or raises.
ProcessOutcomes(kind) ==
    CASE kind = "CreditCardProcessor" -> {"True"}
      [] kind = "QrisProcessor"       -> {"True"}
      [] kind = "IPaymentProcessor"   -> {"True", "1", "False", "None", "raise"}

\* What send() of each notifier class can do.
SendOutcomes(kind) ==
    CASE kind = "EmailNotifier"        -> {"return"}
      [] kind = "INotificationService" -> {"return", "raise"}

\* The order as process() leaves it: no strategy assigns to it.
AfterProcess(kind, order) == order

\* A send() that marks the order it was given.
AfterSendMarks(kind, order) == [order EXCEPT !.status = "notified"]

\* The order as send() leaves it: EmailNotifier only reads customer_name.
AfterSend(kind, order) == order

\* logger.info(...) and print(...): one emitted line.
LogLine(kind, arg) == [stream |-> "logging", kind |-> kind, arg |-> arg]

PrintLine(arg) == [stream |-> "stdout", kind |-> "banner", arg |-> arg]

\* The line a payment strategy logs.
PaymentLine(kind) ==
    CASE kind = "CreditCardProcessor" -> LogLine("payment", "Kartu Kredit")
      [] kind = "QrisProcessor"       -> LogLine("payment", "QRIS")
      [] kind = "IPaymentProcessor"   -> LogLine("payment", "double")

\* The line a notifier logs.
NotifLine(kind, order) == LogLine("notif", order.customer_name)

Bind(name, ref) ==
    [x \in DOMAIN env \cup {name} |-> IF x = name THEN ref ELSE env[x]]

----
\* The record of a call that has just begun on service s and order o.
NewCall(s, o) ==
    [svc |-> s, order |-> o,
     pre |-> orders[o],          \* the order when the call began
     log_from |-> Len(log),      \* lines logged before the call
     nprocess |-> 0,             \* invocations of process()
     result |-> "unset",         \* what process() did: a value, or "raise"
     log_at_process |-> 0,       \* lines logged when process() was invoked
     nwrite |-> 0,               \* assignments to order.status
     nsend |-> 0,                \* invocations of send()
     sent_order |-> 0,           \* the order send() was given
     sent_status |-> "",         \* its status at that moment
     send_result |-> "unset",    \* what send() did: "return" or "raise"
     ended |-> "no",             \* "no", "return" or "raise"
     ret |-> "",                 \* the value returned
     post |-> orders[o],         \* the order when the call ended
     log_to |-> Len(log)]        \* lines logged when the call ended

\* The current call's record with process() invoked and its outcome r.
NoteProcess(c, r) ==
    [c EXCEPT !.nprocess = @ + 1, !.result = r, !.log_at_process = Len(log)]

\* The current call's record with one more assignment to order.status.
NoteWrite(c) == [c EXCEPT !.nwrite = @ + 1]

\* The current call's record with send() invoked on order o and its outcome r.
NoteSend(c, o, r) ==
    [c EXCEPT !.nsend = @ + 1, !.sent_order = o, !.sent_status = orders[o].status,
              !.send_result = r]

\* The current call's record with the call ended; order is the order then,
\* lines the number of lines logged.
NoteEnd(c, how, value, order, lines) ==
    [c EXCEPT !.ended = how, !.ret = value, !.post = order, !.log_to = lines]

Current == calls[Len(calls)]

WithCurrent(c) == [calls EXCEPT ![Len(calls)] = c]

----
HarnessInit ==
    /\ mpc = "harness"
    /\ orders \in [1..MaxOrders -> {Order(i[1], i[2]) : i \in OrderInputs}]
    /\ processors = <<"CreditCardProcessor", "QrisProcessor", "IPaymentProcessor">>
    /\ notifiers = <<"EmailNotifier", "INotificationService">>
    /\ services = <<CheckoutService(1, 1), CheckoutService(2, 1), CheckoutService(3, 2)>>
    /\ env = <<>>

ScriptInit ==
    /\ mpc = "L87"
    /\ orders = <<>>
    /\ processors = <<>>
    /\ notifiers = <<>>
    /\ services = <<>>
    /\ env = <<>>

Init ==
    /\ HarnessInit \/ ScriptInit
    /\ log = <<>>
    /\ pc = "idle"
    /\ self_ref = 0
    /\ order_ref = 0
    /\ payment_success = "unbound"
    /\ exc = "none"
    /\ calls = <<>>

----
\* run_checkout, one statement per action.

frame == <<self_ref, order_ref>>
heap == <<processors, notifiers, services, env>>

\* Entering run_checkout(self, order).
Invoke(s, o) ==
    /\ pc = "idle"
    /\ pc' = "L68"
    /\ self_ref' = s
    /\ order_ref' = o
    /\ payment_success' = "unbound"
    /\ exc' = "none"
    /\ calls' = Append(calls, NewCall(s, o))
    /\ UNCHANGED <<orders, log, heap>>

\* `return` in place of `pass`: the call ends before its logic.
PassReturns ==
    /\ pc = "L68"
    /\ pc' = "idle"
    /\ calls' = WithCurrent(NoteEnd(Current, "return", "None", orders[order_ref], Len(log)))
    /\ UNCHANGED <<orders, log, heap, mpc, frame, payment_success, exc>>

\* A guard in place of `pass`: an order already "paid" is not charged again.
PassGuardsPaid ==
    /\ pc = "L68"
    /\ IF orders[order_ref].status = "paid"
       THEN /\ pc' = "idle"
            /\ calls' = WithCurrent(NoteEnd(Current, "return", "True", orders[order_ref], Len(log)))
       ELSE /\ pc' = "L70"
            /\ UNCHANGED calls
    /\ UNCHANGED <<orders, log, heap, mpc, frame, payment_success, exc>>

\* line 68: pass
Pass ==
    /\ pc = "L68"
    /\ pc' = "L70"
    /\ UNCHANGED <<orders, log, heap, mpc, frame, payment_success, exc, calls>>

\* line 70 without its logger.info.
LogStartSilent ==
    /\ pc = "L70"
    /\ pc' = "L73"
    /\ UNCHANGED <<orders, log, heap, mpc, frame, payment_success, exc, calls>>

\* line 70: logger.info("--- Memulai Checkout untuk ... ---")
LogStart ==
    /\ pc = "L70"
    /\ log' = Append(log, LogLine("start", orders[order_ref].customer_name))
    /\ pc' = "L73"
    /\ UNCHANGED <<orders, heap, mpc, frame, payment_success, exc, calls>>

\* line 73: payment_success = self.payment_processor.process(order)
\* process() logs its line and returns, or raises; an exception leaves
\* run_checkout at once.
CallProcess ==
    /\ pc = "L73"
    /\ LET p == services[self_ref].payment_processor
           kind == processors[p]
       IN \E r \in ProcessOutcomes(kind) :
            /\ orders' = [orders EXCEPT ![order_ref] = AfterProcess(kind, @)]
            /\ IF r = "raise"
               THEN /\ calls' = WithCurrent(NoteEnd(NoteProcess(Current, r), "raise", "",
                                                    orders'[order_ref], Len(log)))
                    /\ pc' = "idle"
                    /\ exc' = "process"
                    /\ UNCHANGED <<log, payment_success>>
               ELSE /\ calls' = WithCurrent(NoteProcess(Current, r))
                    /\ log' = Append(log, PaymentLine(kind))
                    /\ payment_success' = r
                    /\ pc' = "L75"
                    /\ UNCHANGED exc
    /\ UNCHANGED <<heap, mpc, frame>>

\* line 75 with the strategy's class looked at: QRIS payments are not accepted.
BranchByClass ==
    /\ pc = "L75"
    /\ pc' = IF /\ Truthy(payment_success)
                /\ processors[services[self_ref].payment_processor] # "QrisProcessor"
             THEN "L76" ELSE "L82"
    /\ UNCHANGED <<orders, log, heap, mpc, frame, payment_success, exc, calls>>

\* line 75: if payment_success:
Branch ==
    /\ pc = "L75"
    /\ pc' = IF Truthy(payment_success) THEN "L76" ELSE "L82"
    /\ UNCHANGED <<orders, log, heap, mpc, frame, payment_success, exc, calls>>

\* line 76: order.status = "paid"
SetPaid ==
    /\ pc = "L76"
    /\ orders' = [orders EXCEPT ![order_ref].status = "paid"]
    /\ calls' = WithCurrent(NoteWrite(Current))
    /\ pc' = "L77"
    /\ UNCHANGED <<log, heap, mpc, frame, payment_success, exc>>

\* line 77 inside try/except: a failed send() makes the call return False.
CallSendCaught ==
    /\ pc = "L77"
    /\ LET n == services[self_ref].notifier
           kind == notifiers[n]
       IN \E r \in SendOutcomes(kind) :
            /\ orders' = [orders EXCEPT ![order_ref] = AfterSend(kind, @)]
            /\ calls' = WithCurrent(NoteSend(Current, order_ref, r))
            /\ IF r = "raise"
               THEN /\ pc' = "L82"
                    /\ UNCHANGED log
               ELSE /\ log' = Append(log, NotifLine(kind, orders[order_ref]))
                    /\ pc' = "L80"
    /\ UNCHANGED <<heap, mpc, frame, payment_success, exc>>

\* line 77: self.notifier.send(order)
\* send() logs its line and returns, or raises; an exception leaves
\* run_checkout at once.
CallSend ==
    /\ pc = "L77"
    /\ LET n == services[self_ref].notifier
           kind == notifiers[n]
       IN \E r \in SendOutcomes(kind) :
            /\ orders' = [orders EXCEPT ![order_ref] = AfterSend(kind, @)]
            /\ IF r = "raise"
               THEN /\ calls' = WithCurrent(NoteEnd(NoteSend(Current, order_ref, r), "raise", "",
                                                    orders'[order_ref], Len(log)))
                    /\ pc' = "idle"
                    /\ exc' = "send"
                    /\ UNCHANGED log
               ELSE /\ calls' = WithCurrent(NoteSend(Current, order_ref, r))
                    /\ log' = Append(log, NotifLine(kind, orders[order_ref]))
                    /\ pc' = "L80"
                    /\ UNCHANGED exc
    /\ UNCHANGED <<heap, mpc, frame, payment_success>>

\* line 80: logger.info("Checkout Sukses. Transaksi selesai.")
LogSuccess ==
    /\ pc = "L80"
    /\ log' = Append(log, LogLine("success", ""))
    /\ pc' = "L81"
    /\ UNCHANGED <<orders, heap, mpc, frame, payment_success, exc, calls>>

\* `return payment_success` in place of `return True`.
ReturnPaymentValue ==
    /\ pc = "L81"
    /\ pc' = "idle"
    /\ calls' = WithCurrent(NoteEnd(Current, "return", payment_success, orders[order_ref], Len(log)))
    /\ UNCHANGED <<orders, log, heap, mpc, frame, payment_success, exc>>

\* line 81: return True
ReturnTrue ==
    /\ pc = "L81"
    /\ pc' = "idle"
    /\ calls' = WithCurrent(NoteEnd(Current, "return", "True", orders[order_ref], Len(log)))
    /\ UNCHANGED <<orders, log, heap, mpc, frame, payment_success, exc>>

\* `return payment_success` in place of `return False`.
ReturnPaymentSuccess ==
    /\ pc = "L82"
    /\ pc' = "idle"
    /\ calls' = WithCurrent(NoteEnd(Current, "return", payment_success, orders[order_ref], Len(log)))
    /\ UNCHANGED <<orders, log, heap, mpc, frame, payment_success, exc>>

\* line 82: return False
ReturnFalse ==
    /\ pc = "L82"
    /\ pc' = "idle"
    /\ calls' = WithCurrent(NoteEnd(Current, "return", "False", orders[order_ref], Len(log)))
    /\ UNCHANGED <<orders, log, heap, mpc, frame, payment_success, exc>>

----
\* A caller of run_checkout on any service and any order.
HarnessCall ==
    /\ mpc = "harness"
    /\ Len(calls) < MaxCalls
    /\ \E s \in 1..Len(services), o \in 1..Len(orders) : Invoke(s, o)
    /\ UNCHANGED mpc

----
\* The module-level script.  A statement runs when no call is active and no
\* exception has left the previous statement.

ScriptAt(line) == mpc = line /\ pc = "idle" /\ exc = "none"

callFrame == <<pc, self_ref, order_ref, payment_success, exc, calls>>

\* line 87: andi_order = Order("Andi", 500000)
L87 ==
    /\ ScriptAt("L87")
    /\ orders' = Append(orders, Order("Andi", 500000))
    /\ env' = Bind("andi_order", Len(orders) + 1)
    /\ mpc' = "L88"
    /\ UNCHANGED <<processors, notifiers, services, log, callFrame>>

\* line 88: email_service = EmailNotifier()
L88 ==
    /\ ScriptAt("L88")
    /\ notifiers' = Append(notifiers, "EmailNotifier")
    /\ env' = Bind("email_service", Len(notifiers) + 1)
    /\ mpc' = "L91"
    /\ UNCHANGED <<orders, processors, services, log, callFrame>>

\* line 91: cc_processor = CreditCardProcessor()
L91 ==
    /\ ScriptAt("L91")
    /\ processors' = Append(processors, "CreditCardProcessor")
    /\ env' = Bind("cc_processor", Len(processors) + 1)
    /\ mpc' = "L92"
    /\ UNCHANGED <<orders, notifiers, services, log, callFrame>>

\* line 92: checkout_cc = CheckoutService(cc_processor, email_service)
L92 ==
    /\ ScriptAt("L92")
    /\ services' = Append(services, CheckoutService(env["cc_processor"], env["email_service"]))
    /\ env' = Bind("checkout_cc", Len(services) + 1)
    /\ mpc' = "L94"
    /\ UNCHANGED <<orders, processors, notifiers, log, callFrame>>

\* line 94: print("\n[Skenario 1: Credit Card]")
L94 ==
    /\ ScriptAt("L94")
    /\ log' = Append(log, PrintLine("Skenario 1"))
    /\ mpc' = "L95"
    /\ UNCHANGED <<orders, heap, callFrame>>

\* line 95: checkout_cc.run_checkout(andi_order)
L95 ==
    /\ ScriptAt("L95")
    /\ Invoke(env["checkout_cc"], env["andi_order"])
    /\ mpc' = "L103"

\* line 103: budi_order = Order("Budi", 100000)
L103 ==
    /\ ScriptAt("L103")
    /\ orders' = Append(orders, Order("Budi", 100000))
    /\ env' = Bind("budi_order", Len(orders) + 1)
    /\ mpc' = "L104"
    /\ UNCHANGED <<processors, notifiers, services, log, callFrame>>

\* line 104: qris_processor = QrisProcessor()
L104 ==
    /\ ScriptAt("L104")
    /\ processors' = Append(processors, "QrisProcessor")
    /\ env' = Bind("qris_processor", Len(processors) + 1)
    /\ mpc' = "L107"
    /\ UNCHANGED <<orders, notifiers, services, log, callFrame>>

\* line 107 with a notifier of its own instead of the shared one.
L107FreshNotifier ==
    /\ ScriptAt("L107")
    /\ notifiers' = Append(notifiers, "EmailNotifier")
    /\ services' = Append(services, CheckoutService(env["qris_processor"], Len(notifiers) + 1))
    /\ env' = Bind("checkout_qris", Len(services) + 1)
    /\ mpc' = "L109"
    /\ UNCHANGED <<orders, processors, log, callFrame>>

\* line 107: checkout_qris = CheckoutService(qris_processor, email_service)
L107 ==
    /\ ScriptAt("L107")
    /\ services' = Append(services, CheckoutService(env["qris_processor"], env["email_service"]))
    /\ env' = Bind("checkout_qris", Len(services) + 1)
    /\ mpc' = "L109"
    /\ UNCHANGED <<orders, processors, notifiers, log, callFrame>>

\* line 109: print("\n[Skenario 2: Pembuktian OCP (QRIS)]")
L109 ==
    /\ ScriptAt("L109")
    /\ log' = Append(log, PrintLine("Skenario 2"))
    /\ mpc' = "L110"
    /\ UNCHANGED <<orders, heap, callFrame>>

\* line 110: checkout_qris.run_checkout(budi_order)
L110 ==
    /\ ScriptAt("L110")
    /\ Invoke(env["checkout_qris"], env["budi_order"])
    /\ mpc' = "L111"

\* End of the file: the interpreter exits normally.
Exit ==
    /\ ScriptAt("L111")
    /\ mpc' = "done"
    /\ UNCHANGED <<orders, heap, log, callFrame>>

----
RunCheckout ==
    \/ Pass \/ LogStart \/ CallProcess \/ Branch \/ SetPaid
    \/ CallSend \/ LogSuccess \/ ReturnTrue \/ ReturnFalse

Script ==
    \/ L87 \/ L88 \/ L91 \/ L92 \/ L94 \/ L95
    \/ L103 \/ L104 \/ L107 \/ L109 \/ L110 \/ Exit

Next == HarnessCall \/ RunCheckout \/ Script

Spec == Init /\ [][Next]_vars

\* The interpreter runs every statement that can run.
FairSpec == Spec /\ WF_vars(Next)

----
\* Reading the call records.

Ended(c) == c.ended # "no"

Returned(c) == c.ended = "return"

Raised(c) == c.ended = "raise"

\* process() was invoked in the call and returned a value.
Processed(c) == c.nprocess > 0 /\ c.result \notin {"unset", "raise"}

\* The class of the payment strategy injected into the call's service.
ProcessorOf(c) == processors[services[c.svc].payment_processor]

\* The kinds of the lines logged during the call.
CallLog(c) ==
    LET to == IF Ended(c) THEN c.log_to ELSE Len(log)
    IN [k \in 1..(to - c.log_from) |-> log[c.log_from + k].kind]

\* Over the first k calls, the sum of a counter of those made on order o.
RECURSIVE SumOn(_, _, _)
SumOn(k, o, counter) ==
    IF k = 0 THEN 0
    ELSE SumOn(k - 1, o, counter) + (IF calls[k].order = o THEN calls[k][counter] ELSE 0)

\* The calls made on order o.
CallsOn(o) == {i \in 1..Len(calls) : calls[i].order = o}

IsPrefix(s, t) == Len(s) <= Len(t) /\ \A k \in 1..Len(s) : s[k] = t[k]

----
\* C1: for an order that is "open" when run_checkout is called and a payment
\* strategy whose process() returns a truthy value, the finished call has
\* left the order "paid", has invoked send exactly once, with that same
\* order, and, when it returned, returned True.  (It ends without a return
\* value only when send itself raised.)
C1_SuccessPath ==
    \A i \in 1..Len(calls) :
        LET c == calls[i] IN
        (Ended(c) /\ c.pre.status = "open" /\ Processed(c) /\ Truthy(c.result))
        => /\ c.post.status = "paid"
           /\ c.nsend = 1
           /\ c.sent_order = c.order
           /\ Returned(c) => c.ret = "True"
           /\ Raised(c) => c.send_result = "raise"

\* A call on an open order, paid with a truthy value that is not True, has returned.
C1_Witness ==
    \E i \in 1..Len(calls) :
        /\ Returned(calls[i]) /\ calls[i].pre.status = "open"
        /\ calls[i].result = "1"
        /\ calls[i].post.status = "paid"

\* C2: for an order that is "open" when run_checkout is called and a payment
\* strategy whose process() returns a falsy value, the call returns False,
\* leaves the status "open" and never invokes send.
C2_FailurePath ==
    \A i \in 1..Len(calls) :
        LET c == calls[i] IN
        (Ended(c) /\ c.pre.status = "open" /\ Processed(c) /\ ~Truthy(c.result))
        => /\ Returned(c)
           /\ c.ret = "False"
           /\ c.post.status = "open"
           /\ c.nsend = 0

\* A call on an open order whose payment returned None has finished.
C2_Witness ==
    \E i \in 1..Len(calls) :
        /\ Ended(calls[i]) /\ calls[i].pre.status = "open"
        /\ calls[i].result = "None"

\* What one step may do to the orders' statuses.
C3_StatusSteps ==
    /\ \A o \in DOMAIN orders' \ DOMAIN orders : orders'[o].status = "open"
    /\ \A o \in DOMAIN orders :
          /\ o \in DOMAIN orders'
          /\ orders[o].status = "paid" => orders'[o].status = "paid"
          /\ (orders[o].status = "open" /\ orders'[o].status # "open")
             => /\ orders'[o].status = "paid"
                /\ pc # "idle" /\ order_ref = o
                /\ calls # <<>>
                /\ Current.order = o /\ ~Ended(Current)
                /\ Processed(Current) /\ Truthy(Current.result)

\* C3: every order's status is always "open" or "paid"; an order starts
\* "open"; a status changes to "paid" only in a run_checkout call on that
\* order, after its process() returned a truthy value; a "paid" order never
\* leaves "paid".
C3_StatusInvariant ==
    /\ [](\A o \in DOMAIN orders : orders[o].status \in {"open", "paid"})
    /\ (\A o \in DOMAIN orders : orders[o].status = "open")
    /\ [][C3_StatusSteps]_vars

\* One order has been paid while another is still open.
C3_Witness ==
    \E o1, o2 \in DOMAIN orders :
        orders[o1].status = "paid" /\ orders[o2].status = "open"

\* C4: the pass statement does not end the call; every call invokes
\* process() exactly once, before any status write and before any send;
\* send is invoked only after process() returned a truthy value and after
\* the status was set, so the order send receives is "paid".
C4_StepOrder ==
    \A i \in 1..Len(calls) :
        LET c == calls[i] IN
        /\ c.nprocess <= 1
        /\ Ended(c) => c.nprocess = 1
        /\ (~Ended(c) /\ pc \in {"L68", "L70", "L73"})
           => (c.nprocess = 0 /\ c.nwrite = 0 /\ c.nsend = 0)
        /\ (~Ended(c) /\ pc \in {"L75", "L76", "L77", "L80", "L81", "L82"})
           => c.nprocess = 1
        /\ (c.nwrite > 0 \/ c.nsend > 0) => (Processed(c) /\ Truthy(c.result))
        /\ c.nsend > 0 => (c.nwrite = 1 /\ c.sent_status = "paid")

\* send has been invoked on an order that was open when the call began.
C4_Witness ==
    \E i \in 1..Len(calls) :
        /\ calls[i].pre.status = "open"
        /\ calls[i].nsend = 1 /\ calls[i].sent_status = "paid"

\* C5: run_checkout does not look at the order's status: a call on an order
\* that is already "paid", with a payment that succeeds, invokes process and
\* send again, returns True and leaves the status "paid"; when all n calls
\* made on an order returned True, process and send were each invoked n
\* times for it.
C5_NoStatusGuard ==
    /\ \A i \in 1..Len(calls) :
          LET c == calls[i] IN
          (Ended(c) /\ c.pre.status = "paid")
          => /\ c.nprocess = 1
             /\ (Returned(c) /\ Truthy(c.result))
                => (c.nsend = 1 /\ c.ret = "True" /\ c.post.status = "paid")
    /\ \A o \in DOMAIN orders :
          (\A i \in CallsOn(o) : Returned(calls[i]) /\ calls[i].ret = "True")
          => /\ SumOn(Len(calls), o, "nprocess") = Cardinality(CallsOn(o))
             /\ SumOn(Len(calls), o, "nsend") = Cardinality(CallsOn(o))

\* Two calls on the same order have both returned True.
C5_Witness ==
    \E o \in DOMAIN orders :
        /\ Cardinality(CallsOn(o)) >= 2
        /\ \A i \in CallsOn(o) : Returned(calls[i]) /\ calls[i].ret = "True"
        /\ \E i \in CallsOn(o) : calls[i].pre.status = "paid"

\* How a call ended, as its caller sees it.
OutcomeOf(c) == IF Returned(c) THEN c.ret ELSE "exception"

\* C6: run_checkout depends on the payment strategy only through the truth
\* value of what process() returned: two finished calls on equal orders
\* whose strategies reported the same outcome (and whose notifier did not
\* fail) have the same return value, the same final order and the same
\* number of send invocations, whatever the strategy classes are.
C6_Substitutable ==
    \A i, j \in 1..Len(calls) :
        LET a == calls[i]
            b == calls[j]
        IN ( /\ Ended(a) /\ Ended(b)
             /\ Processed(a) /\ Processed(b)
             /\ Truthy(a.result) = Truthy(b.result)
             /\ a.pre = b.pre
             /\ a.send_result # "raise" /\ b.send_result # "raise" )
           => /\ OutcomeOf(a) = OutcomeOf(b)
              /\ a.post = b.post
              /\ a.nsend = b.nsend

\* A credit-card call and a QRIS call on equal orders have both finished.
C6_Witness ==
    \E i, j \in 1..Len(calls) :
        /\ Ended(calls[i]) /\ Ended(calls[j])
        /\ ProcessorOf(calls[i]) = "CreditCardProcessor"
        /\ ProcessorOf(calls[j]) = "QrisProcessor"
        /\ calls[i].pre = calls[j].pre

\* The state the script must end in.
C7_Final ==
    mpc = "done" =>
        /\ Len(calls) = 2
        /\ \A i \in 1..2 : Returned(calls[i]) /\ calls[i].ret = "True" /\ calls[i].nsend = 1
        /\ calls[1].svc = env["checkout_cc"] /\ calls[1].order = env["andi_order"]
        /\ ProcessorOf(calls[1]) = "CreditCardProcessor"
        /\ calls[2].svc = env["checkout_qris"] /\ calls[2].order = env["budi_order"]
        /\ ProcessorOf(calls[2]) = "QrisProcessor"
        /\ env["andi_order"] # env["budi_order"]
        /\ orders[env["andi_order"]].status = "paid"
        /\ orders[env["budi_order"]].status = "paid"
        /\ \A i \in 1..2 : services[calls[i].svc].notifier = env["email_service"]
        /\ calls[1].sent_order = env["andi_order"]
        /\ calls[2].sent_order = env["budi_order"]

\* C7: the script always runs to its end, with no exception leaving a
\* statement, after exactly two run_checkout calls: the credit-card call on
\* andi_order, then the QRIS call on budi_order; both return True, both
\* orders end "paid", and the one shared notifier's send has been invoked
\* twice, once for each order.
C7_ScriptTerminates ==
    /\ [](C7_Final)
    /\ [](mpc # "harness" => exc = "none")
    /\ (mpc # "harness") ~> (mpc = "done")

\* The script has ended after its two calls.
C7_Witness == mpc = "done" /\ Len(calls) = 2

\* The lines the script emits, in order.
ScriptLog ==
    << PrintLine("Skenario 1"), LogLine("start", "Andi"), LogLine("payment", "Kartu Kredit"),
       LogLine("notif", "Andi"), LogLine("success", ""),
       PrintLine("Skenario 2"), LogLine("start", "Budi"), LogLine("payment", "QRIS"),
       LogLine("notif", "Budi"), LogLine("success", "") >>

\* C8: the script emits, per scenario, banner, start line, payment line,
\* notifier line, success line, scenario 1 before scenario 2.  In any call
\* the start line is emitted before process() is invoked; the success line
\* comes last, after send returned, and only when the payment succeeded; a
\* call whose payment fails emits the start line and the payment line only.
C8_LogOrder ==
    /\ mpc # "harness" => IsPrefix(log, ScriptLog)
    /\ mpc = "done" => log = ScriptLog
    /\ \A i \in 1..Len(calls) :
          LET c == calls[i]
              lines == CallLog(c)
          IN /\ IsPrefix(lines, <<"start", "payment", "notif", "success">>)
             /\ c.nprocess > 0 => c.log_at_process = c.log_from + 1
             /\ Len(lines) = 4
                => (Processed(c) /\ Truthy(c.result) /\ c.send_result = "return")
             /\ (Ended(c) /\ Processed(c) /\ ~Truthy(c.result))
                => lines = <<"start", "payment">>
             /\ (Returned(c) /\ Processed(c) /\ Truthy(c.result))
                => lines = <<"start", "payment", "notif", "success">>

\* A call whose payment failed has returned after two lines.
C8_Witness ==
    \E i \in 1..Len(calls) :
        /\ Returned(calls[i]) /\ calls[i].result = "False"
        /\ CallLog(calls[i]) = <<"start", "payment">>

\* C9: run_checkout catches nothing and undoes nothing.  An exception raised
\* by process() or by send() leaves the call with no return value and no
\* success line.  If process() raised, the order is as it was and send was
\* not invoked; if send() raised, the order is "paid" and stays "paid".
C9_ExceptionsPropagate ==
    \A i \in 1..Len(calls) :
        LET c == calls[i] IN
        /\ (c.result = "raise" \/ c.send_result = "raise")
           => /\ Raised(c)
              /\ c.ret = ""
              /\ \A k \in DOMAIN CallLog(c) : CallLog(c)[k] # "success"
              /\ i = Len(calls) => (pc = "idle" /\ exc # "none")
        /\ Raised(c) => (c.result = "raise" \/ c.send_result = "raise")
        /\ c.result = "raise"
           => (c.post = c.pre /\ c.nsend = 0 /\ c.nwrite = 0)
        /\ c.send_result = "raise"
           => (c.post.status = "paid" /\ orders[c.order].status = "paid")

\* send raised in a call on an order that was open.
C9_Witness ==
    \E i \in 1..Len(calls) :
        /\ calls[i].pre.status = "open"
        /\ calls[i].send_result = "raise"
        /\ exc = "send"

\* What one step of run_checkout may change.
C10_FrameStep ==
    pc # "idle" =>
        /\ services' = services
        /\ processors' = processors
        /\ notifiers' = notifiers
        /\ env' = env
        /\ DOMAIN orders' = DOMAIN orders
        /\ \A o \in DOMAIN orders : o # order_ref => orders'[o] = orders[o]
        /\ orders'[order_ref].customer_name = orders[order_ref].customer_name
        /\ orders'[order_ref].total_price = orders[order_ref].total_price
        /\ orders'[order_ref].status # orders[order_ref].status => pc = "L76"
        /\ pc \in {"L73", "L77"} => orders' = orders

\* C10: a run_checkout call changes nothing but the status of the order it
\* was given, and writes it at most once, on the success path only; the
\* order's name and price, every other order and the service's two stored
\* references stay as they were, and process() and send() leave the order
\* unchanged.
C10_Frame ==
    /\ [](\A i \in 1..Len(calls) :
            /\ calls[i].nwrite <= 1
            /\ calls[i].nwrite = 1 => (Processed(calls[i]) /\ Truthy(calls[i].result)))
    /\ [][C10_FrameStep]_vars

\* A call has written the status once and returned, with another order untouched.
C10_Witness ==
    \E i \in 1..Len(calls) :
        /\ Returned(calls[i]) /\ calls[i].nwrite = 1 /\ calls[i].nsend = 1
        /\ \E o \in DOMAIN orders : o # calls[i].order /\ orders[o].status = "open"

====
